---- MODULE Spec2Model ----
(***************************************************************************)
(* The Cura WASM worker (src/src/worker.ts): the singleton that owns the   *)
(* Emscripten engine handle, stages definition files into the engine's     *)
(* in-memory filesystem, and runs one slice: convert, write Model.stl,     *)
(* register the two globalThis callbacks, callMain, read Model.gcode,      *)
(* unlink the transient files.                                             *)
(*                                                                         *)
(* JavaScript is run-to-completion: a handler is interrupted only at an    *)
(* await.  initialize awaits CuraEngine(config) and run awaits convert(),  *)
(* so each of them is two actions (the call, the resolution); everything   *)
(* else in a handler is one action.  callMain is a blocking foreign call   *)
(* that re-enters the worker through the two callbacks: while a run is     *)
(* inside callMain no other handler can take a step.  When run returns or  *)
(* throws, its promise settles before any other handler starts (settle):   *)
(* the record of the call, which is history and not program state, is      *)
(* dropped there and its slot is free for a later call.                    *)
(*                                                                         *)
(* The two globalThis callbacks are closures of the run that registered    *)
(* them.  Only the engine calls them, inside callMain, and every run       *)
(* registers its own pair right before callMain: the closure called during *)
(* callMain of run r is always the one of run r, so the hooks are modelled *)
(* by whether they are defined and the closure's captured locals           *)
(* (converterBias, slicerBias, previousSlicerProgress) live in runs[r].    *)
(*                                                                         *)
(* Progress fractions are fixed-point numbers in thousandths: 0.3 is 300   *)
(* and 1 is 1000.                                                          *)
(*                                                                         *)
(* Spec is the worker with every handler.  SpecArguments, SpecSubscriptions*)
(* and SpecBaseline are the same actions with the inputs of one part drawn *)
(* from larger sets (the arguments of run, the observers of repeated       *)
(* subscriptions, the history of the values forwarded from run to run) and *)
(* the handlers that part does not depend on left out.                     *)
(***************************************************************************)
EXTENDS Integers, Sequences, FiniteSets, TLC

VARIABLES
    engine,            \* 0: null; k > 0: the k-th engine instance created
    initPending,       \* initialize calls awaiting CuraEngine(config)
    fs,                \* engine.FS of the current instance
    extruderCount,     \* Null or the count stored by addDefinitions
    progressObserver,  \* 0: null; k > 0: the observer of the k-th subscription
    metadataObserver,  \* 0: null; k > 0: the observer of the k-th subscription
    progressHook,      \* whether globalThis['cura-wasm-progress-callback'] is defined
    metadataHook,      \* whether globalThis['cura-wasm-metadata-callback'] is defined
    runs,              \* per run call in flight: its position, locals and result, the raw
                       \* fractions the engine reported to it and what it sent to the observers
    lastCall,          \* the addDefinitions / removeDefinitions / observe call that has just
                       \* settled, if any, and the one settled right before it
    forwarded          \* history, kept by SpecBaseline alone: the rounded engine fraction
                       \* that the run which last left callMain forwarded last, Null when
                       \* it forwarded none

vars == <<engine, initPending, fs, extruderCount, progressObserver,
          metadataObserver, progressHook, metadataHook, runs, lastCall, forwarded>>

----------------------------------------------------------------------------
(* Bounds of the model *)

MaxInits == 2
MaxExtruders == 1
MaxSubscriptions == 1
MaxRuns == 2
MaxConverterReports == 1
MaxSlicerReports == 2
MaxMetadataCalls == 2

(* Program constants *)

Null == -1

Runs == 1..MaxRuns
Extensions == {"stl", "obj"}
\* raw fractions in [0,1] the converter reports, in thousandths
ConverterFractions == {500, 1000}
\* raw fractions in [0,1] the engine reports, in thousandths; 500 and 504 round
\* to the same two decimals
SlicerFractions == {0, 500, 504, 1000}
\* the thousandths whose product with 100 is, as a double, just below the half:
\* 100 * 0.145 = 14.499999999999998, 100 * 0.285 = 28.499999999999996,
\* 100 * 0.565 = 56.49999999999999, 100 * 0.575 = 57.49999999999999
JustBelowHalf == {145, 285, 565, 575}
\* raw fractions the engine reports at and around a half of a hundredth
HalfwayFractions == {280, 285, 290}
\* the twelve positional arguments of a metadata callback
MetadataArgs ==
    {<<"UltiGCode", 9061, 11172, 0, 400, 11172, 78628, 95565, 300, 142112, 127435, 48000>>}
\* the observers of the subscriptions, in the order they are made
Observers == 1..MaxSubscriptions
\* the same with one subscription more
Resubscribers == 1..(MaxSubscriptions + 1)
\* a printer definition with n extruders
Definitions == [printer : {"ultimaker2"}, extruders : 0..MaxExtruders]

\* the keys of the imported definitions object, in for-in order
PrimaryDefinitions == <<"fdmextruder", "fdmprinter">>

\* the command argument of run: null, or a string.  A string is given as the
\* sequence of its single spaces and of the runs of characters between them.
NoCommand == <<>>
Raw(text) == <<text>>
Commands ==
    {NoCommand,
     Raw(<<"slice", " ", "-j", " ", "definitions/printer.def.json", " ",
           "-l", " ", "Model.stl", " ", "-o", " ", "Model.gcode">>),
     Raw(<<"slice", " ", " ", "-v">>),
     Raw(<<>>)}
\* the overrides argument of run (null is the empty list); the scope "" is undefined
OverrideLists ==
    {<<>>,
     <<[scope |-> "", key |-> "mesh_position_x", value |-> "20"],
       [scope |-> "e0", key |-> "layer_height", value |-> "0.2"]>>}
\* the extension argument of run
FileExtensions == Extensions \cup {"STL", "3mf"}

NotInitializedAdd == "Attempting to add definitions before initialization!"
NotInitializedRun == "Attempting to run Cura Engine before initialization!"
NotInitializedRemove == "Attempting to remove definitions before initialization!"

----------------------------------------------------------------------------
(* The Emscripten in-memory filesystem, as far as the worker uses it.  A   *)
(* value x is the filesystem during one handler: its directories, its      *)
(* files (path -> directory and data) and the error thrown so far; once an *)
(* error is thrown the rest of the handler is skipped.                     *)

EmptyFS == [dirs |-> {}, files |-> <<>>]

Begin(f) == [dirs |-> f.dirs, files |-> f.files, err |-> "none"]

Commit(x) == [dirs |-> x.dirs, files |-> x.files]

Exists(f, path) == path \in DOMAIN f.files

FSmkdir(x, dir) ==
    IF x.err # "none" THEN x
    ELSE IF dir \in x.dirs THEN [x EXCEPT !.err = "EEXIST"]
    ELSE [x EXCEPT !.dirs = @ \cup {dir}]

FSwriteFile(x, dir, path, data) ==
    IF x.err # "none" THEN x
    ELSE IF dir # "/" /\ dir \notin x.dirs THEN [x EXCEPT !.err = "ENOENT"]
    ELSE [x EXCEPT !.files = [p \in DOMAIN x.files \cup {path} |->
                                 IF p = path THEN [dir |-> dir, data |-> data]
                                 ELSE x.files[p]]]

FSunlink(x, path) ==
    IF x.err # "none" THEN x
    ELSE IF ~Exists(x, path) THEN [x EXCEPT !.err = "ENOENT"]
    ELSE [x EXCEPT !.files = [p \in DOMAIN x.files \ {path} |-> x.files[p]]]

FSrmdir(x, dir) ==
    IF x.err # "none" THEN x
    ELSE IF dir \notin x.dirs THEN [x EXCEPT !.err = "ENOENT"]
    ELSE IF \E p \in DOMAIN x.files : x.files[p].dir = dir
         THEN [x EXCEPT !.err = "ENOTEMPTY"]
    ELSE [x EXCEPT !.dirs = @ \ {dir}]

----------------------------------------------------------------------------
(* Paths *)

DefinitionsDir == "/definitions"
PrimaryPath(definition) == "/definitions/" \o definition \o ".def.json"
PrinterPath == "/definitions/printer.def.json"
ExtruderPath(i) == "/definitions/extruder-" \o ToString(i) \o ".def.json"
ModelStl == "Model.stl"
ModelGcode == "Model.gcode"

----------------------------------------------------------------------------
(* addDefinitions and removeDefinitions: the filesystem calls in order *)

RECURSIVE WritePrimary(_, _)
WritePrimary(x, k) ==
    IF k > Len(PrimaryDefinitions) THEN x
    ELSE WritePrimary(FSwriteFile(x, DefinitionsDir, PrimaryPath(PrimaryDefinitions[k]),
                                  <<"json", PrimaryDefinitions[k]>>), k + 1)

RECURSIVE WriteExtruders(_, _, _)
WriteExtruders(x, i, n) ==
    IF i >= n THEN x
    ELSE WriteExtruders(FSwriteFile(x, DefinitionsDir, ExtruderPath(i),
                                    <<"json", "extruder">>), i + 1, n)

AddFiles(f, definition) ==
    LET x1 == FSmkdir(Begin(f), DefinitionsDir)
        x2 == WritePrimary(x1, 1)
        x3 == FSwriteFile(x2, DefinitionsDir, PrinterPath, <<"json", definition.printer>>)
    IN  WriteExtruders(x3, 0, definition.extruders)

RECURSIVE UnlinkPrimary(_, _)
UnlinkPrimary(x, k) ==
    IF k > Len(PrimaryDefinitions) THEN x
    ELSE UnlinkPrimary(FSunlink(x, PrimaryPath(PrimaryDefinitions[k])), k + 1)

RECURSIVE UnlinkExtruders(_, _, _)
UnlinkExtruders(x, i, n) ==
    IF i >= n THEN x
    ELSE UnlinkExtruders(FSunlink(x, ExtruderPath(i)), i + 1, n)

\* RemoveFiles with the extruder loop started at 1
RemoveFilesFromOne(f, count) ==
    LET x1 == UnlinkPrimary(Begin(f), 1)
        x2 == FSunlink(x1, PrinterPath)
        x3 == UnlinkExtruders(x2, 1, count)
    IN  FSrmdir(x3, DefinitionsDir)

RemoveFiles(f, count) ==
    LET x1 == UnlinkPrimary(Begin(f), 1)
        x2 == FSunlink(x1, PrinterPath)
        x3 == UnlinkExtruders(x2, 0, count)
    IN  FSrmdir(x3, DefinitionsDir)

----------------------------------------------------------------------------
(* Progress arithmetic, in thousandths *)

\* ConverterBias with the extension compared whatever its case
ConverterBiasAnyCase(extension) == IF extension \in {"stl", "STL"} THEN 0 ELSE 300

ConverterBias(extension) == IF extension = "stl" THEN 0 ELSE 300

SlicerBias(extension) == 1000 - ConverterBias(extension)

\* Round2 without the rounding
Round2Omitted(slicerProgress) == slicerProgress

\* 100 * slicerProgress as the double the multiplication yields, in twentieths:
\* the exact product, or the double right below it
Times100(slicerProgress) ==
    2 * slicerProgress - (IF slicerProgress \in JustBelowHalf THEN 1 ELSE 0)

\* Math.round of a number in twentieths: halves round up
MathRound(twentieths) == (twentieths + 10) \div 20

\* Math.round(100 * slicerProgress) / 100
Round2(slicerProgress) == MathRound(Times100(slicerProgress)) * 10

\* ConverterEmission without the bias
ConverterEmissionUnbiased(converterProgress, extension) == converterProgress

ConverterEmission(converterProgress, extension) ==
    (converterProgress * ConverterBias(extension)) \div 1000

\* SlicerEmission without the share of the conversion phase added
SlicerEmissionNoOffset(slicerProgress, extension) ==
    (slicerProgress * SlicerBias(extension)) \div 1000

SlicerEmission(slicerProgress, extension) ==
    (slicerProgress * SlicerBias(extension)) \div 1000 + ConverterBias(extension)

\* MetadataRecord with the two arguments after material1Usage taken in the other order
MetadataRecordSwapped(a) ==
    [flavor |-> a[1], printTime |-> a[2], material1Usage |-> a[3],
     material2Usage |-> a[5], nozzleSize |-> a[4], filamentUsage |-> a[6],
     minX |-> a[7], minY |-> a[8], minZ |-> a[9],
     maxX |-> a[10], maxY |-> a[11], maxZ |-> a[12]]

MetadataRecord(a) ==
    [flavor |-> a[1], printTime |-> a[2], material1Usage |-> a[3],
     material2Usage |-> a[4], nozzleSize |-> a[5], filamentUsage |-> a[6],
     minX |-> a[7], minY |-> a[8], minZ |-> a[9],
     maxX |-> a[10], maxY |-> a[11], maxZ |-> a[12]]

----------------------------------------------------------------------------
(* The argument vector of callMain *)

RECURSIVE Join(_)
\* the string made of the given pieces
Join(pieces) == IF pieces = <<>> THEN "" ELSE pieces[1] \o Join(Tail(pieces))

RECURSIVE Split(_)
\* String.prototype.split(' '): the tokens between the single spaces; two spaces
\* in a row enclose an empty token and the empty string has one empty token
Split(text) ==
    IF \A i \in DOMAIN text : text[i] # " "
    THEN <<Join(text)>>
    ELSE LET k == CHOOSE i \in DOMAIN text :
                      text[i] = " " /\ \A j \in 1..(i - 1) : text[j] # " "
         IN  <<Join(SubSeq(text, 1, k - 1))>> \o Split(SubSeq(text, k + 1, Len(text)))

RECURSIVE OverrideFlags(_)
\* one setting flag per override, in the order of the list
OverrideFlags(overrides) ==
    IF overrides = <<>> THEN <<>>
    ELSE (IF overrides[1].scope = "" THEN <<>> ELSE <<"-" \o overrides[1].scope>>)
         \o <<"-s", overrides[1].key \o "=" \o overrides[1].value>>
         \o OverrideFlags(Tail(overrides))

\* generate(overrides, verbose) of ./arguments: the argument synthesizer
Generate(overrides, verbose) ==
    <<"slice", "-j", "definitions/printer.def.json", "-o", "Model.gcode">>
    \o (IF verbose THEN <<"-v">> ELSE <<>>)
    \o OverrideFlags(overrides)
    \o <<"-l", "Model.stl">>

\* Arguments with the synthesizer consulted whatever the command is
ArgumentsSynthesized(command, overrides, verbose) == Generate(overrides, verbose)

\* command == null ? generate(overrides, verbose) : command.split(' ')
Arguments(command, overrides, verbose) ==
    IF command = NoCommand THEN Generate(overrides, verbose) ELSE Split(command[1])

----------------------------------------------------------------------------
(* State *)

NoResult == [kind |-> "none", of |-> 0]

\* a settled call: the handler, what it returned or threw, the filesystem it started from
Settled(op, outcome, before) == [op |-> op, outcome |-> outcome, before |-> before]

\* no addDefinitions, removeDefinitions or observe call has just settled: every
\* step of another handler sets lastCall to this
NoCall == [op |-> "none", outcome |-> "none", before |-> EmptyFS,
           prev |-> Settled("none", "none", EmptyFS)]

\* the call that has just settled, after the one lastCall holds
Call(op, outcome, before) ==
    [op |-> op, outcome |-> outcome, before |-> before,
     prev |-> Settled(lastCall.op, lastCall.outcome, lastCall.before)]

NewRun ==
    [pc |-> "new", command |-> NoCommand, overrides |-> <<>>, verbose |-> FALSE,
     extension |-> "stl", converterBias |-> Null, slicerBias |-> Null,
     args |-> <<>>, result |-> NoResult,
     previousSlicerProgress |-> 0, reported |-> <<>>, progress |-> <<>>,
     metadataCalls |-> 0, metadata |-> <<>>, called |-> FALSE, steps |-> <<>>]

Init ==
    /\ engine = 0
    /\ initPending = 0
    /\ fs = EmptyFS
    /\ extruderCount = Null
    /\ progressObserver = 0
    /\ metadataObserver = 0
    /\ progressHook = FALSE
    /\ metadataHook = FALSE
    /\ runs = [r \in Runs |-> NewRun]
    /\ lastCall = NoCall
    /\ forwarded = Null

\* no run is inside the blocking engine.callMain or settling its promise
Idle == \A r \in Runs : runs[r].pc \in {"new", "converting"}

\* the rounded engine fraction run r forwarded last, Null when it forwarded none
Forwarded(r) ==
    LET slice == SelectSeq(runs[r].progress, LAMBDA e : e.phase = "slice")
    IN  IF slice = <<>> THEN Null ELSE Round2(slice[Len(slice)].raw)

Reports(r, phase) ==
    Cardinality({k \in DOMAIN runs[r].progress : runs[r].progress[k].phase = phase})

----------------------------------------------------------------------------
(* initialize *)

initialize ==
    /\ Idle
    /\ engine + initPending < MaxInits
    /\ initPending' = initPending + 1
    /\ lastCall' = NoCall
    /\ UNCHANGED <<engine, fs, extruderCount, progressObserver, metadataObserver,
                   progressHook, metadataHook, runs, forwarded>>

\* engine = await CuraEngine(config): a new instance, with a filesystem of its own
initializeResolve ==
    /\ Idle
    /\ initPending > 0
    /\ initPending' = initPending - 1
    /\ engine' = engine + 1
    /\ fs' = EmptyFS
    /\ lastCall' = NoCall
    /\ UNCHANGED <<extruderCount, progressObserver, metadataObserver,
                   progressHook, metadataHook, runs, forwarded>>

(* addDefinitions *)

addDefinitions(definition) ==
    /\ Idle
    /\ IF engine = 0
       THEN /\ lastCall' = Call("addDefinitions", NotInitializedAdd, fs)
            /\ UNCHANGED <<fs, extruderCount>>
       ELSE LET x == AddFiles(fs, definition)
            IN  /\ fs' = Commit(x)
                /\ extruderCount' = IF x.err = "none" THEN definition.extruders
                                    ELSE extruderCount
                /\ lastCall' = Call("addDefinitions",
                                     IF x.err = "none" THEN "ok" ELSE x.err, fs)
    /\ UNCHANGED <<engine, initPending, progressObserver, metadataObserver,
                   progressHook, metadataHook, runs, forwarded>>

(* removeDefinitions *)

\* removeDefinitions with a type guard on the engine alone
removeDefinitionsEngineGuard ==
    /\ Idle
    /\ IF engine = 0
       THEN /\ lastCall' = Call("removeDefinitions", NotInitializedRemove, fs)
            /\ UNCHANGED fs
       ELSE LET x == RemoveFiles(fs, extruderCount)
            IN  /\ fs' = Commit(x)
                /\ lastCall' = Call("removeDefinitions",
                                     IF x.err = "none" THEN "ok" ELSE x.err, fs)
    /\ UNCHANGED <<engine, initPending, extruderCount, progressObserver,
                   metadataObserver, progressHook, metadataHook, runs, forwarded>>

removeDefinitions ==
    /\ Idle
    /\ IF engine = 0 \/ extruderCount = Null
       THEN /\ lastCall' = Call("removeDefinitions", NotInitializedRemove, fs)
            /\ UNCHANGED fs
       ELSE LET x == RemoveFiles(fs, extruderCount)
            IN  /\ fs' = Commit(x)
                /\ lastCall' = Call("removeDefinitions",
                                     IF x.err = "none" THEN "ok" ELSE x.err, fs)
    /\ UNCHANGED <<engine, initPending, extruderCount, progressObserver,
                   metadataObserver, progressHook, metadataHook, runs, forwarded>>

(* observeProgress, observeMetadata: each subscription makes a new observer, *)
(* observer, which is none of the earlier ones                              *)

\* observeProgress with a null check before the assignment
observeProgressOnce(observer) ==
    /\ Idle
    /\ observer = progressObserver + 1
    /\ progressObserver' = IF progressObserver = 0 THEN observer ELSE progressObserver
    /\ lastCall' = Call("observeProgress", ToString(observer), fs)
    /\ UNCHANGED <<engine, initPending, fs, extruderCount, metadataObserver,
                   progressHook, metadataHook, runs, forwarded>>

observeProgress(observer) ==
    /\ Idle
    /\ observer = progressObserver + 1
    /\ progressObserver' = observer
    /\ lastCall' = Call("observeProgress", ToString(observer), fs)
    /\ UNCHANGED <<engine, initPending, fs, extruderCount, metadataObserver,
                   progressHook, metadataHook, runs, forwarded>>

observeMetadata(observer) ==
    /\ Idle
    /\ observer = metadataObserver + 1
    /\ metadataObserver' = observer
    /\ lastCall' = Call("observeMetadata", ToString(observer), fs)
    /\ UNCHANGED <<engine, initPending, fs, extruderCount, progressObserver,
                   progressHook, metadataHook, runs, forwarded>>

(* run *)

\* run without its type guard
runUnguarded(r, command, overrides, verbose, extension) ==
    /\ Idle
    /\ runs[r].pc = "new"
    /\ \A q \in Runs : q < r => runs[q].pc # "new"
    /\ runs' = [runs EXCEPT ![r] = [@ EXCEPT !.pc = "converting",
                                            !.command = command,
                                            !.overrides = overrides,
                                            !.verbose = verbose,
                                            !.extension = extension,
                                            !.converterBias = ConverterBias(extension),
                                            !.slicerBias = SlicerBias(extension)]]
    /\ lastCall' = NoCall
    /\ UNCHANGED <<engine, initPending, fs, extruderCount, progressObserver,
                   metadataObserver, progressHook, metadataHook, forwarded>>

\* the call, up to the await of convert(); it takes the first free slot
run(r, command, overrides, verbose, extension) ==
    /\ Idle
    /\ runs[r].pc = "new"
    /\ \A q \in Runs : q < r => runs[q].pc # "new"
    /\ runs' = [runs EXCEPT ![r] =
                  IF engine = 0
                  THEN [@ EXCEPT !.pc = "thrown",
                                 !.command = command,
                                 !.overrides = overrides,
                                 !.verbose = verbose,
                                 !.extension = extension,
                                 !.result = [kind |-> NotInitializedRun, of |-> 0]]
                  ELSE [@ EXCEPT !.pc = "converting",
                                 !.command = command,
                                 !.overrides = overrides,
                                 !.verbose = verbose,
                                 !.extension = extension,
                                 !.converterBias = ConverterBias(extension),
                                 !.slicerBias = SlicerBias(extension)]]
    /\ lastCall' = NoCall
    /\ UNCHANGED <<engine, initPending, fs, extruderCount, progressObserver,
                   metadataObserver, progressHook, metadataHook, forwarded>>

\* converterProgress with the sink also called after convert() has resolved
converterProgressLate(r, fraction) ==
    /\ runs[r].pc \in {"converting", "slicing"}
    /\ Reports(r, "convert") < MaxConverterReports
    /\ runs' = IF progressObserver # 0
               THEN [runs EXCEPT ![r].progress =
                       Append(@, [phase |-> "convert", to |-> progressObserver,
                                  raw |-> fraction,
                                  value |-> ConverterEmission(fraction, runs[r].extension)])]
               ELSE runs
    /\ lastCall' = NoCall
    /\ UNCHANGED <<engine, initPending, fs, extruderCount, progressObserver,
                   metadataObserver, progressHook, metadataHook, forwarded>>

\* the converter calls the progress sink of run r
converterProgress(r, fraction) ==
    /\ Idle
    /\ runs[r].pc = "converting"
    /\ Reports(r, "convert") < MaxConverterReports
    /\ runs' = IF progressObserver # 0
               THEN [runs EXCEPT ![r].progress =
                       Append(@, [phase |-> "convert", to |-> progressObserver,
                                  raw |-> fraction,
                                  value |-> ConverterEmission(fraction, runs[r].extension)])]
               ELSE runs
    /\ lastCall' = NoCall
    /\ UNCHANGED <<engine, initPending, fs, extruderCount, progressObserver,
                   metadataObserver, progressHook, metadataHook, forwarded>>

\* convertError with Model.stl written before the result is looked at
convertErrorAfterWrite(r) ==
    /\ Idle
    /\ runs[r].pc = "converting"
    /\ fs' = Commit(FSwriteFile(Begin(fs), "/", "Model.stl", <<"stl", r>>))
    /\ runs' = [runs EXCEPT ![r].pc = "returned",
                            ![r].result = [kind |-> "ConversionError", of |-> r]]
    /\ lastCall' = NoCall
    /\ UNCHANGED <<engine, initPending, extruderCount, progressObserver,
                   metadataObserver, progressHook, metadataHook, forwarded>>

\* convert() resolves to an Error: run returns it
convertError(r) ==
    /\ Idle
    /\ runs[r].pc = "converting"
    /\ runs' = [runs EXCEPT ![r].pc = "returned",
                            ![r].result = [kind |-> "ConversionError", of |-> r]]
    /\ lastCall' = NoCall
    /\ UNCHANGED <<engine, initPending, fs, extruderCount, progressObserver,
                   metadataObserver, progressHook, metadataHook, forwarded>>

\* convertResolve with the deduplication baseline kept from the run before
convertResolveBaselineKept(r) ==
    /\ Idle
    /\ runs[r].pc = "converting"
    /\ fs' = Commit(FSwriteFile(Begin(fs), "/", ModelStl, <<"stl", r>>))
    /\ progressHook' = TRUE
    /\ metadataHook' = TRUE
    /\ runs' = [runs EXCEPT ![r].pc = "slicing",
                            ![r].previousSlicerProgress =
                                IF forwarded = Null THEN 0 ELSE forwarded,
                            ![r].args = Arguments(runs[r].command, runs[r].overrides,
                                                  runs[r].verbose),
                            ![r].called = TRUE,
                            ![r].steps = <<"writeFile Model.stl",
                                           "set cura-wasm-progress-callback",
                                           "set cura-wasm-metadata-callback",
                                           "callMain">>]
    /\ lastCall' = NoCall
    /\ UNCHANGED <<engine, initPending, extruderCount, progressObserver,
                   metadataObserver, forwarded>>

\* convertResolve taking place while another run is inside callMain
convertResolveInterleaved(r) ==
    /\ runs[r].pc = "converting"
    /\ fs' = Commit(FSwriteFile(Begin(fs), "/", ModelStl, <<"stl", r>>))
    /\ progressHook' = TRUE
    /\ metadataHook' = TRUE
    /\ runs' = [runs EXCEPT ![r].pc = "slicing",
                            ![r].previousSlicerProgress = 0,
                            ![r].args = Arguments(runs[r].command, runs[r].overrides,
                                                  runs[r].verbose),
                            ![r].called = TRUE,
                            ![r].steps = <<"writeFile Model.stl",
                                           "set cura-wasm-progress-callback",
                                           "set cura-wasm-metadata-callback",
                                           "callMain">>]
    /\ lastCall' = NoCall
    /\ UNCHANGED <<engine, initPending, extruderCount, progressObserver,
                   metadataObserver, forwarded>>

\* convert() resolves to an STL: write it, register both callbacks, enter callMain
convertResolve(r) ==
    /\ Idle
    /\ runs[r].pc = "converting"
    /\ fs' = Commit(FSwriteFile(Begin(fs), "/", ModelStl, <<"stl", r>>))
    /\ progressHook' = TRUE
    /\ metadataHook' = TRUE
    /\ runs' = [runs EXCEPT ![r].pc = "slicing",
                            ![r].previousSlicerProgress = 0,
                            ![r].args = Arguments(runs[r].command, runs[r].overrides,
                                                  runs[r].verbose),
                            ![r].called = TRUE,
                            ![r].steps = <<"writeFile Model.stl",
                                           "set cura-wasm-progress-callback",
                                           "set cura-wasm-metadata-callback",
                                           "callMain">>]
    /\ lastCall' = NoCall
    /\ UNCHANGED <<engine, initPending, extruderCount, progressObserver,
                   metadataObserver, forwarded>>

\* the engine, inside callMain of run r, calls globalThis['cura-wasm-progress-callback']
curaProgressCallback(r, fraction) ==
    /\ runs[r].pc = "slicing"
    /\ progressHook
    /\ Len(runs[r].reported) < MaxSlicerReports
    /\ LET slicerProgress == Round2(fraction)
       IN  runs' = IF slicerProgress # runs[r].previousSlicerProgress
                   THEN [runs EXCEPT
                           ![r].reported = Append(@, fraction),
                           ![r].progress =
                               IF progressObserver # 0
                               THEN Append(@, [phase |-> "slice", to |-> progressObserver,
                                               raw |-> fraction,
                                               value |-> SlicerEmission(slicerProgress,
                                                                        runs[r].extension)])
                               ELSE @,
                           ![r].previousSlicerProgress = slicerProgress]
                   ELSE [runs EXCEPT ![r].reported = Append(@, fraction)]
    /\ UNCHANGED <<engine, initPending, fs, extruderCount, progressObserver,
                   metadataObserver, progressHook, metadataHook, lastCall, forwarded>>

\* curaMetadataCallback with the progress observer tested in the guard
curaMetadataCallbackWrongGuard(r, args) ==
    /\ runs[r].pc = "slicing"
    /\ metadataHook
    /\ runs[r].metadataCalls < MaxMetadataCalls
    /\ runs' = [runs EXCEPT
                  ![r].metadataCalls = @ + 1,
                  ![r].metadata =
                      IF progressObserver # 0
                      THEN Append(@, [to |-> metadataObserver, record |-> MetadataRecord(args)])
                      ELSE @]
    /\ UNCHANGED <<engine, initPending, fs, extruderCount, progressObserver,
                   metadataObserver, progressHook, metadataHook, lastCall, forwarded>>

\* the engine, inside callMain of run r, calls globalThis['cura-wasm-metadata-callback']
curaMetadataCallback(r, args) ==
    /\ runs[r].pc = "slicing"
    /\ metadataHook
    /\ runs[r].metadataCalls < MaxMetadataCalls
    /\ runs' = [runs EXCEPT
                  ![r].metadataCalls = @ + 1,
                  ![r].metadata =
                      IF metadataObserver # 0
                      THEN Append(@, [to |-> metadataObserver, record |-> MetadataRecord(args)])
                      ELSE @]
    /\ UNCHANGED <<engine, initPending, fs, extruderCount, progressObserver,
                   metadataObserver, progressHook, metadataHook, lastCall, forwarded>>

\* callMain returns; wrote tells whether the engine wrote Model.gcode.  The rest
\* of run follows: delete the progress handler, read Model.gcode, unlink both.
\* (callMainReturn and callMainThrow leave the step of the history variable to
\* the specification.)
callMainReturn(r, wrote) ==
    /\ runs[r].pc = "slicing"
    /\ LET x0 == Begin(fs)
           x1 == IF wrote /\ Exists(x0, ModelStl)
                 THEN FSwriteFile(x0, "/", ModelGcode, <<"gcode", x0.files[ModelStl].data[2]>>)
                 ELSE x0
           read == IF Exists(x1, ModelGcode) THEN x1 ELSE [x1 EXCEPT !.err = "ENOENT"]
           x2 == FSunlink(read, ModelStl)
           x3 == FSunlink(x2, ModelGcode)
       IN  /\ fs' = Commit(x3)
           /\ progressHook' = FALSE
           /\ runs' = [runs EXCEPT
                         ![r].steps = @ \o <<"delete cura-wasm-progress-callback",
                                              "readFile Model.gcode">>
                                        \o (IF read.err = "none"
                                            THEN <<"unlink Model.stl">> ELSE <<>>)
                                        \o (IF x2.err = "none"
                                            THEN <<"unlink Model.gcode">> ELSE <<>>),
                         ![r].pc = IF x3.err = "none" THEN "returned" ELSE "thrown",
                         ![r].result =
                             IF x3.err = "none"
                             THEN [kind |-> "gcode", of |-> read.files[ModelGcode].data[2]]
                             ELSE [kind |-> x3.err, of |-> 0]]
    /\ UNCHANGED <<engine, initPending, extruderCount, progressObserver,
                   metadataObserver, metadataHook, lastCall>>

\* callMain throws: nothing of run after it is executed
callMainThrow(r) ==
    /\ runs[r].pc = "slicing"
    /\ runs' = [runs EXCEPT ![r].pc = "thrown",
                            ![r].result = [kind |-> "EngineFailure", of |-> 0]]
    /\ UNCHANGED <<engine, initPending, fs, extruderCount, progressObserver,
                   metadataObserver, progressHook, metadataHook, lastCall>>

\* the promise of run r settles: the caller has the result or the error
settle(r) ==
    /\ runs[r].pc \in {"returned", "thrown"}
    /\ runs' = [runs EXCEPT ![r] = NewRun]
    /\ UNCHANGED <<engine, initPending, fs, extruderCount, progressObserver,
                   metadataObserver, progressHook, metadataHook, lastCall, forwarded>>

----------------------------------------------------------------------------

Next ==
    \/ initialize
    \/ initializeResolve
    \/ \E definition \in Definitions : addDefinitions(definition)
    \/ removeDefinitions
    \/ \E observer \in Observers : observeProgress(observer)
    \/ \E observer \in Observers : observeMetadata(observer)
    \/ \E r \in Runs, extension \in Extensions :
          run(r, NoCommand, <<>>, FALSE, extension)
    \/ \E r \in Runs, fraction \in ConverterFractions : converterProgress(r, fraction)
    \/ \E r \in Runs : convertError(r)
    \/ \E r \in Runs : convertResolve(r)
    \/ \E r \in Runs, fraction \in SlicerFractions : curaProgressCallback(r, fraction)
    \/ \E r \in Runs, args \in MetadataArgs : curaMetadataCallback(r, args)
    \/ \E r \in Runs, wrote \in BOOLEAN :
          callMainReturn(r, wrote) /\ UNCHANGED forwarded
    \/ \E r \in Runs : callMainThrow(r) /\ UNCHANGED forwarded
    \/ \E r \in Runs : settle(r)

Spec == Init /\ [][Next]_vars

\* the worker with run called on every command, override list, verbosity and
\* extension, the engine silent
NextArguments ==
    \/ initialize
    \/ initializeResolve
    \/ \E r \in Runs, command \in Commands, overrides \in OverrideLists,
          verbose \in BOOLEAN, extension \in FileExtensions :
          run(r, command, overrides, verbose, extension)
    \/ \E r \in Runs : convertResolve(r)
    \/ \E r \in Runs, wrote \in BOOLEAN :
          callMainReturn(r, wrote) /\ UNCHANGED forwarded
    \/ \E r \in Runs : settle(r)

SpecArguments == Init /\ [][NextArguments]_vars

\* the worker with each stream subscribed to more than once, the definitions
\* left out and the converter and the engine succeeding
NextSubscriptions ==
    \/ initialize
    \/ initializeResolve
    \/ \E observer \in Resubscribers : observeProgress(observer)
    \/ \E observer \in Resubscribers : observeMetadata(observer)
    \/ \E r \in Runs, extension \in Extensions :
          run(r, NoCommand, <<>>, FALSE, extension)
    \/ \E r \in Runs, fraction \in ConverterFractions : converterProgress(r, fraction)
    \/ \E r \in Runs : convertResolve(r)
    \/ \E r \in Runs, fraction \in SlicerFractions : curaProgressCallback(r, fraction)
    \/ \E r \in Runs, args \in MetadataArgs : curaMetadataCallback(r, args)
    \/ \E r \in Runs, wrote \in BOOLEAN :
          callMainReturn(r, wrote) /\ UNCHANGED forwarded
    \/ \E r \in Runs : settle(r)

SpecSubscriptions == Init /\ [][NextSubscriptions]_vars

\* the worker with the history of the values forwarded kept from one run to the
\* next and the engine reporting fractions around a half of a hundredth too, the
\* definitions left out
NextBaseline ==
    \/ initialize
    \/ initializeResolve
    \/ \E observer \in Observers : observeProgress(observer)
    \/ \E r \in Runs, extension \in Extensions :
          run(r, NoCommand, <<>>, FALSE, extension)
    \/ \E r \in Runs, fraction \in ConverterFractions : converterProgress(r, fraction)
    \/ \E r \in Runs : convertResolve(r)
    \/ \E r \in Runs, fraction \in SlicerFractions \cup HalfwayFractions :
          curaProgressCallback(r, fraction)
    \/ \E r \in Runs, wrote \in BOOLEAN :
          callMainReturn(r, wrote) /\ forwarded' = Forwarded(r)
    \/ \E r \in Runs : callMainThrow(r) /\ forwarded' = Forwarded(r)
    \/ \E r \in Runs : settle(r)

SpecBaseline == Init /\ [][NextBaseline]_vars

----------------------------------------------------------------------------
(* Properties *)

Finished(r) == runs[r].pc \in {"returned", "thrown"}

\* run r returned the output bytes
Succeeded(r) == runs[r].pc = "returned" /\ runs[r].result.kind = "gcode"

ConversionFailed(r) == runs[r].result.kind = "ConversionError"

Phase(r, phase) == SelectSeq(runs[r].progress, LAMBDA e : e.phase = phase)

NonDecreasing(log) == \A i, j \in DOMAIN log : i < j => log[i].value <= log[j].value

InUnitRange(log) == \A i \in DOMAIN log : 0 <= log[i].value /\ log[i].value <= 1000

RawNonDecreasing(log) == \A i, j \in DOMAIN log : i < j => log[i].raw <= log[j].raw

Ascending(fractions) == \A i, j \in DOMAIN fractions : i < j => fractions[i] <= fractions[j]

\* the hundredths a reported fraction rounds to, halves up; the double of a
\* fraction in JustBelowHalf times 100 is below the half
Hundredths(fraction) ==
    IF fraction \in JustBelowHalf THEN fraction \div 10 ELSE (fraction + 5) \div 10

DefinitionsPresent(f) ==
    \/ DefinitionsDir \in f.dirs
    \/ \E p \in DOMAIN f.files : f.files[p].dir = DefinitionsDir

(* C1: as long as no initialize call has completed (engine is null, also   *)
(* with initialize calls pending), every run, addDefinitions and           *)
(* removeDefinitions call has failed with its NotInitialized error and has *)
(* done nothing: the filesystem is untouched, no hook is registered, the   *)
(* converter was never started and nothing was sent to an observer.        *)
C1_NotInitializedBeforeInitialize ==
    engine = 0 =>
        /\ fs = EmptyFS
        /\ extruderCount = Null
        /\ ~progressHook /\ ~metadataHook
        /\ lastCall.op = "addDefinitions" => lastCall.outcome = NotInitializedAdd
        /\ lastCall.op = "removeDefinitions" => lastCall.outcome = NotInitializedRemove
        /\ \A r \in Runs :
              /\ runs[r].pc \in {"new", "thrown"}
              /\ runs[r].pc = "thrown" => runs[r].result.kind = NotInitializedRun
              /\ ~runs[r].called
              /\ runs[r].progress = <<>> /\ runs[r].metadata = <<>>

C1_Witness ==
    /\ engine = 0
    /\ initPending > 0
    /\ \E r \in Runs : runs[r].pc = "thrown" /\ runs[r].result.kind = NotInitializedRun

(* C2: every step of a run up to and including the one in which convert()  *)
(* resolves to an Error leaves the filesystem and both hooks as they are   *)
(* and does not call the engine; the Error is the value run returns, it is *)
(* not thrown.                                                             *)
C2_ConversionErrorReturned ==
    [][\A r \in Runs :
          (/\ runs'[r] # runs[r]
           /\ runs[r].pc \in {"new", "converting"}
           /\ runs'[r].pc \in {"converting", "returned"})
          => /\ fs' = fs
             /\ progressHook' = progressHook /\ metadataHook' = metadataHook
             /\ ~runs'[r].called
             /\ runs'[r].pc = "returned" =>
                   runs'[r].result = [kind |-> "ConversionError", of |-> r]]_vars

C2_Witness ==
    \E r \in Runs : runs[r].pc = "returned" /\ ConversionFailed(r) /\ engine # 0

(* C3: after a run that returned the output bytes neither callback hook is *)
(* registered on globalThis.                                               *)
C3_HooksGoneAfterSuccess ==
    \A r \in Runs : Succeeded(r) => ~progressHook /\ ~metadataHook

(* C4: when callMain throws, run throws and both hooks are unregistered.   *)
C4_HooksGoneAfterEngineFailure ==
    \A r \in Runs :
        runs[r].result.kind = "EngineFailure" =>
            runs[r].pc = "thrown" /\ ~progressHook /\ ~metadataHook

(* C5: after a run call has terminated, whatever its outcome (the output   *)
(* bytes returned, a conversion error returned, an engine failure thrown), *)
(* neither Model.stl nor Model.gcode is in the filesystem.                 *)
C5_NoTransientFilesAfterRun ==
    \A r \in Runs :
        (/\ Finished(r)
         /\ runs[r].result.kind \in {"gcode", "ConversionError", "EngineFailure"})
        => ~Exists(fs, ModelStl) /\ ~Exists(fs, ModelGcode)

(* C6 as claimed: in every successful run the values sent to the progress  *)
(* observer are non-decreasing and lie in [0,1], whatever fractions in     *)
(* [0,1] the converter and the engine reported.                            *)
C6_ProgressNonDecreasing ==
    \A r \in Runs :
        Succeeded(r) => NonDecreasing(runs[r].progress) /\ InUnitRange(runs[r].progress)

(* C6 amended: in every successful run every value sent to the progress    *)
(* observer lies in [0,1], and the values are non-decreasing whenever the  *)
(* fractions the converter reported and the fractions the engine reported  *)
(* are each non-decreasing.                                                *)
C6_ProgressNonDecreasingForMonotoneInput ==
    \A r \in Runs :
        Succeeded(r) =>
            /\ InUnitRange(runs[r].progress)
            /\ (RawNonDecreasing(Phase(r, "convert")) /\ Ascending(runs[r].reported))
                  => NonDecreasing(runs[r].progress)

C6_Witness ==
    \E r \in Runs :
        /\ Succeeded(r)
        /\ runs[r].extension # "stl"
        /\ Len(Phase(r, "convert")) >= 1
        /\ Len(Phase(r, "slice")) >= 2
        /\ Ascending(runs[r].reported)

(* C7: in one engine invocation a reported fraction that rounds to the     *)
(* same two decimals as the fraction reported right before it is not       *)
(* forwarded, and no two consecutive slicing-phase values sent to the      *)
(* observer are equal.                                                     *)
C7_NoDuplicateSlicerProgress ==
    \A r \in Runs :
        LET reported == runs[r].reported
            slice == Phase(r, "slice")
            fresh == {k \in DOMAIN reported :
                         k = 1 \/ Hundredths(reported[k]) # Hundredths(reported[k - 1])}
        IN  /\ Len(slice) <= Cardinality(fresh)
            /\ \A k \in DOMAIN slice : k > 1 => slice[k].value # slice[k - 1].value

C7_Witness ==
    \E r \in Runs :
        /\ runs[r].reported = <<280, 285>>
        /\ progressObserver # 0
        /\ Len(Phase(r, "slice")) = 1

(* C8: a removeDefinitions call right after a successful addDefinitions    *)
(* call succeeds and leaves the filesystem as it was before the            *)
(* addDefinitions call, with no /definitions directory and no file in it,  *)
(* for every number of extruders.                                          *)
C8_AddThenRemoveRoundTrip ==
    (/\ lastCall.op = "removeDefinitions"
     /\ lastCall.prev.op = "addDefinitions"
     /\ lastCall.prev.outcome = "ok")
    => /\ lastCall.outcome = "ok"
       /\ fs = lastCall.prev.before
       /\ ~DefinitionsPresent(fs)

C8_Witness ==
    /\ lastCall.op = "removeDefinitions"
    /\ lastCall.prev.op = "addDefinitions"
    /\ lastCall.prev.outcome = "ok"
    /\ extruderCount = MaxExtruders
    /\ Exists(lastCall.before, ExtruderPath(MaxExtruders - 1))

(* C9: with an engine handle and no extruder count recorded (no            *)
(* addDefinitions call has succeeded), removeDefinitions fails with its    *)
(* NotInitialized error and leaves the filesystem and the extruder count   *)
(* as they were.                                                           *)
C9_RemoveBeforeAddFails ==
    (lastCall.op = "removeDefinitions" /\ engine # 0 /\ extruderCount = Null)
    => lastCall.outcome = NotInitializedRemove /\ fs = lastCall.before

C9_Witness ==
    lastCall.op = "removeDefinitions" /\ engine # 0 /\ extruderCount = Null

(* C10: a successful run during which the engine called the metadata hook  *)
(* once, with a metadata observer subscribed, sent that observer exactly   *)
(* one record; a run that ended in a conversion error sent none.           *)
C10_OneMetadataRecordPerRun ==
    \A r \in Runs :
        /\ (Succeeded(r) /\ metadataObserver # 0 /\ runs[r].metadataCalls = 1)
              => Len(runs[r].metadata) = 1
        /\ ConversionFailed(r) => runs[r].metadata = <<>> /\ runs[r].metadataCalls = 0

C10_Witness ==
    \E r \in Runs :
        /\ Succeeded(r)
        /\ metadataObserver # 0
        /\ runs[r].metadataCalls = 1
        /\ Len(runs[r].metadata) = 1

Spaces(text) == Cardinality({i \in DOMAIN text : text[i] = " "})

RECURSIVE JoinWithSpaces(_)
JoinWithSpaces(tokens) ==
    IF Len(tokens) = 1 THEN tokens[1]
    ELSE tokens[1] \o " " \o JoinWithSpaces(Tail(tokens))

(* C11: the argument vector a run passes to callMain.  With a raw command  *)
(* it is the command split on single spaces: one token more than the       *)
(* command has spaces, and the tokens joined by single spaces give the     *)
(* command back; it is the vector of the same command with no overrides    *)
(* and no verbosity, so overrides and verbose do not matter.  With a null  *)
(* command it is the synthesizer's result for (overrides, verbose).        *)
C11_ArgumentVector ==
    \A r \in Runs :
        runs[r].called =>
            IF runs[r].command # NoCommand
            THEN /\ Len(runs[r].args) = Spaces(runs[r].command[1]) + 1
                 /\ JoinWithSpaces(runs[r].args) = Join(runs[r].command[1])
                 /\ runs[r].args = Arguments(runs[r].command, <<>>, FALSE)
            ELSE runs[r].args = Generate(runs[r].overrides, runs[r].verbose)

C11_Witness ==
    \E r \in Runs :
        /\ runs[r].pc = "slicing"
        /\ runs[r].command = Raw(<<"slice", " ", " ", "-v">>)
        /\ runs[r].overrides # <<>>
        /\ runs[r].verbose
        /\ runs[r].args = <<"slice", "", "-v">>

\* the entries a step has appended to a log
Appended(before, after) == {after[k] : k \in (Len(before) + 1)..Len(after)}

(* C12: each stream has one subscriber slot.  A subscription to a stream   *)
(* makes its new observer the subscriber of that stream, in place of the   *)
(* earlier one, and leaves the subscriber of the other stream as it was;   *)
(* nothing else changes a subscriber; every value a run sends on a stream  *)
(* goes to the observer of the most recent subscription to that stream.    *)
C12_OneSubscriberPerStream ==
    [][/\ \A r \in Runs :
            /\ \A e \in Appended(runs[r].progress, runs'[r].progress) :
                   e.to = progressObserver' /\ e.to # 0
            /\ \A e \in Appended(runs[r].metadata, runs'[r].metadata) :
                   e.to = metadataObserver' /\ e.to # 0
       /\ (lastCall'.op = "observeProgress" /\ lastCall' # lastCall)
             => /\ ToString(progressObserver') = lastCall'.outcome
                /\ progressObserver' # progressObserver
                /\ metadataObserver' = metadataObserver
       /\ (lastCall'.op = "observeMetadata" /\ lastCall' # lastCall)
             => /\ ToString(metadataObserver') = lastCall'.outcome
                /\ metadataObserver' # metadataObserver
                /\ progressObserver' = progressObserver
       /\ progressObserver' # progressObserver => lastCall'.op = "observeProgress"
       /\ metadataObserver' # metadataObserver => lastCall'.op = "observeMetadata"
      ]_vars

C12_Witness ==
    \E r \in Runs :
        /\ Len(runs[r].progress) >= 2
        /\ runs[r].progress[1].to = 1
        /\ runs[r].progress[Len(runs[r].progress)].to = 2
        /\ progressObserver = 2
        /\ runs[r].metadata # <<>>
        /\ runs[r].metadata[1].to = 2
        /\ metadataObserver = 2

(* C13: the engine handle is created once: when a handle exists, no step,  *)
(* a further initialize included, puts another engine instance, which has  *)
(* a filesystem of its own, in its place.                                  *)
C13_EngineCreatedOnce == [][engine # 0 => engine' = engine]_vars

\* run r has passed the type guard of run
Started(r) == runs[r].pc # "new" /\ runs[r].result.kind # NotInitializedRun

(* C14: in every run that has passed its guard, the weight of the          *)
(* conversion phase is 0 when the extension argument is 'stl', and only    *)
(* then, and 0.3 for every other extension; the weight of the engine phase *)
(* is 1 minus the weight of the conversion phase.                          *)
C14_PhaseWeights ==
    \A r \in Runs :
        Started(r) =>
            /\ runs[r].converterBias = 0 <=> runs[r].extension = "stl"
            /\ runs[r].extension # "stl" => runs[r].converterBias = 300
            /\ runs[r].slicerBias = 1000 - runs[r].converterBias

C14_Witness ==
    \E r \in Runs :
        /\ runs[r].pc = "slicing"
        /\ runs[r].extension = "STL"
        /\ runs[r].converterBias = 300
        /\ runs[r].slicerBias = 700

\* the steps of a run from the write of Model.stl on, in the order of the claim
RunOrder ==
    <<"writeFile Model.stl",
      "set cura-wasm-progress-callback", "set cura-wasm-metadata-callback",
      "callMain",
      "delete cura-wasm-progress-callback",
      "readFile Model.gcode",
      "unlink Model.stl", "unlink Model.gcode">>

(* C15: the order of the steps of a run.  A conversion-phase emission      *)
(* happens while the run awaits the converter, before Model.stl is         *)
(* written, so in the progress log no conversion-phase emission follows a  *)
(* slicing-phase one.  A slicing-phase or metadata emission happens inside *)
(* callMain: the last step before it is the start of callMain and the run  *)
(* is still inside callMain after it.  A run that returns the output has   *)
(* written Model.stl, set both callbacks, called the engine, read          *)
(* Model.gcode and unlinked both files, in this order.  Once a run has     *)
(* returned or thrown, nothing more is emitted for it.                     *)
C15_RunOrder ==
    [][\A r \in Runs :
         /\ \A e \in Appended(runs[r].progress, runs'[r].progress) :
               IF e.phase = "convert"
               THEN /\ runs[r].pc = "converting" /\ runs'[r].pc = "converting"
                    /\ runs[r].steps = <<>>
               ELSE /\ runs[r].pc = "slicing" /\ runs'[r].pc = "slicing"
                    /\ runs[r].steps = SubSeq(RunOrder, 1, 4)
                    /\ runs'[r].steps = runs[r].steps
         /\ \A e \in Appended(runs[r].metadata, runs'[r].metadata) :
               /\ runs[r].pc = "slicing" /\ runs'[r].pc = "slicing"
               /\ runs[r].steps = SubSeq(RunOrder, 1, 4)
               /\ runs'[r].steps = runs[r].steps
         /\ \A i, j \in DOMAIN runs'[r].progress :
               (i < j /\ runs'[r].progress[i].phase = "slice")
                   => runs'[r].progress[j].phase = "slice"
         /\ (runs'[r].pc = "returned" /\ runs'[r].result.kind = "gcode")
               => runs'[r].steps = RunOrder
         /\ Finished(r) =>
               \/ runs'[r] = NewRun
               \/ /\ runs'[r].progress = runs[r].progress
                  /\ runs'[r].metadata = runs[r].metadata
      ]_vars

C15_Witness ==
    \E r \in Runs :
        /\ Succeeded(r)
        /\ runs[r].steps = RunOrder
        /\ Len(runs[r].progress) = 3
        /\ runs[r].progress[1].phase = "convert"
        /\ runs[r].progress[2].phase = "slice"
        /\ runs[r].metadata # <<>>

\* run r is between its write of Model.stl and its return or throw
HoldsEngine(r) == runs[r].pc = "slicing"

(* C16: run calls overlap only while they await the converter.  At most    *)
(* one run at a time is between its write of Model.stl and its return;     *)
(* while it is, Model.stl holds its own converted input and no other run   *)
(* has a step of that section pending; the output a run returns was made   *)
(* from its own converted input.                                           *)
C16_EngineSectionsDoNotInterleave ==
    /\ Cardinality({r \in Runs : HoldsEngine(r)}) <= 1
    /\ \A r \in Runs :
          /\ HoldsEngine(r) =>
                /\ Exists(fs, ModelStl)
                /\ fs.files[ModelStl].data = <<"stl", r>>
                /\ \A q \in Runs \ {r} : runs[q].pc \in {"new", "converting"}
          /\ Succeeded(r) => runs[r].result.of = r

C16_Witness ==
    /\ Succeeded(2)
    /\ runs[2].result.of = 2
    /\ runs[1].pc = "converting"
    /\ runs[1].progress # <<>>

(* C17: every value sent to the progress observer.  In the conversion      *)
(* phase it is the raw fraction of the converter times w_c; in the slicing *)
(* phase it is the raw fraction of the engine, rounded to two decimals,    *)
(* times w_s, plus w_c, where w_c is 0 for 'stl' and 0.3 otherwise and w_s *)
(* is 1 - w_c.  So for 'stl' a conversion-phase value is 0 and a           *)
(* slicing-phase value is the rounded fraction, and for another extension  *)
(* a slicing-phase value is at least 0.3.                                  *)
C17_EmissionArithmetic ==
    \A r \in Runs : \A k \in DOMAIN runs[r].progress :
        LET e == runs[r].progress[k]
            stl == runs[r].extension = "stl"
            wc == IF stl THEN 0 ELSE 300
            ws == 1000 - wc
            rounded == Hundredths(e.raw) * 10
        IN  /\ e.phase = "convert" =>
                  /\ e.value * 1000 = e.raw * wc
                  /\ stl => e.value = 0
            /\ e.phase = "slice" =>
                  /\ e.value * 1000 = rounded * ws + wc * 1000
                  /\ stl => e.value = rounded
                  /\ ~stl => e.value >= 300

C17_Witness ==
    \E r \in Runs :
        /\ runs[r].extension = "obj"
        /\ Len(runs[r].progress) = 2
        /\ runs[r].progress[1] =
               [phase |-> "convert", to |-> 1, raw |-> 500, value |-> 150]
        /\ runs[r].progress[2] =
               [phase |-> "slice", to |-> 1, raw |-> 285, value |-> 496]

MetadataFields ==
    <<"flavor", "printTime", "material1Usage", "material2Usage", "nozzleSize",
      "filamentUsage", "minX", "minY", "minZ", "maxX", "maxY", "maxZ">>

(* C18: every call of the metadata callback with twelve arguments sends    *)
(* the metadata subscriber of that moment one record, whose twelve fields  *)
(* flavor .. maxZ hold the arguments 1 to 12 in this order.  Calls are     *)
(* passed on one at a time: a step sends at most one record, and only as   *)
(* the callback is called, so with a subscriber the records sent are as    *)
(* many as the calls (two calls, two records) and without one nothing is   *)
(* sent; a subscription sends nothing, so nothing is replayed to a         *)
(* subscriber that comes later.                                            *)
C18_MetadataForwarding ==
    [][\A r \in Runs :
         /\ \A k \in DOMAIN runs'[r].metadata :
               /\ DOMAIN runs'[r].metadata[k].record =
                      {MetadataFields[i] : i \in 1..12}
               /\ \E a \in MetadataArgs : \A i \in 1..12 :
                      runs'[r].metadata[k].record[MetadataFields[i]] = a[i]
         /\ metadataObserver' # 0 => Len(runs'[r].metadata) = runs'[r].metadataCalls
         /\ metadataObserver' = 0 => runs'[r].metadata = <<>>
         /\ Cardinality(Appended(runs[r].metadata, runs'[r].metadata)) > 0 =>
               /\ Len(runs'[r].metadata) = Len(runs[r].metadata) + 1
               /\ runs'[r].metadataCalls = runs[r].metadataCalls + 1
               /\ runs'[r].metadata[Len(runs'[r].metadata)].to = metadataObserver
         /\ metadataObserver' # metadataObserver =>
               runs'[r].metadata = runs[r].metadata
      ]_vars

C18_Witness ==
    \E r \in Runs :
        /\ runs[r].metadataCalls = 2
        /\ Len(runs[r].metadata) = 2
        /\ metadataObserver = 2
        /\ runs[r].metadata[2].to = 2
        /\ runs[r].metadata[2].record.flavor = "UltiGCode"
        /\ runs[r].metadata[2].record.printTime = 9061
        /\ runs[r].metadata[2].record.nozzleSize = 400
        /\ runs[r].metadata[2].record.maxZ = 48000

\* the files addDefinitions writes for a printer with count extruders
StagedPaths(count) ==
    {PrimaryPath(PrimaryDefinitions[i]) : i \in DOMAIN PrimaryDefinitions}
    \cup {PrinterPath}
    \cup {ExtruderPath(i) : i \in 0..(count - 1)}

(* C19: an extruder count is recorded only while definitions are staged:   *)
(* whenever extruderCount is not null (so that removeDefinitions passes    *)
(* its guard once a handle exists), an engine handle exists, /definitions  *)
(* exists in its filesystem and holds exactly the primary files,           *)
(* printer.def.json and the extruder files 0 .. extruderCount - 1.         *)
C19_ExtruderCountOnlyWhileStaged ==
    extruderCount # Null =>
        /\ engine # 0
        /\ DefinitionsDir \in fs.dirs
        /\ {p \in DOMAIN fs.files : fs.files[p].dir = DefinitionsDir}
               = StagedPaths(extruderCount)

\* no fraction in the sequence rounds to a value other than 0.00
AllRoundToZero(fractions) == \A i \in DOMAIN fractions : Hundredths(fractions[i]) = 0

(* C20: the deduplication baseline of a run.  It is 0 as the run enters    *)
(* callMain.  Of the fractions the engine reports before any that rounds   *)
(* to a non-zero value, none is forwarded; the first fraction that rounds  *)
(* to a non-zero value is forwarded when there is a progress observer,     *)
(* whatever the run before forwarded last, and the value sent is greater   *)
(* than w_c: so the first slicing-phase emission of a run is greater than  *)
(* w_c, and a value equal to the last one of the run before is sent again. *)
C20_BaselinePerRun ==
    [][\A r \in Runs :
         /\ (runs[r].pc = "converting" /\ runs'[r].pc = "slicing")
               => runs'[r].previousSlicerProgress = 0
         /\ (Len(runs'[r].reported) = Len(runs[r].reported) + 1
              /\ AllRoundToZero(runs[r].reported))
               => LET fraction == runs'[r].reported[Len(runs'[r].reported)]
                      sent == Appended(runs[r].progress, runs'[r].progress)
                      wc == IF runs[r].extension = "stl" THEN 0 ELSE 300
                  IN  IF Hundredths(fraction) = 0 \/ progressObserver = 0
                      THEN sent = {}
                      ELSE /\ Cardinality(sent) = 1
                           /\ \A e \in sent :
                                 /\ e.phase = "slice"
                                 /\ e.raw = fraction
                                 /\ e.value > wc
      ]_vars

C20_Witness ==
    \E r \in Runs :
        /\ forwarded = 1000
        /\ runs[r].pc = "slicing"
        /\ runs[r].reported = <<0, 1000>>
        /\ Len(runs[r].progress) = 1
        /\ runs[r].progress[1].phase = "slice"
        /\ runs[r].progress[1].raw = 1000

====
